---- MODULE Spec2Model ----
(***************************************************************************)
(* Model of src/main.rs: the Reed-Solomon framing codec.                   *)
(*                                                                         *)
(* A byte vector (Vec<u8>, &[u8]) is represented run-length encoded: a     *)
(* sequence of runs <<b, n>> (byte b repeated n >= 1 times) in which       *)
(* adjacent runs hold different bytes.  The representation is canonical,   *)
(* so two byte vectors are equal exactly when their representations are,   *)
(* and it lets the model hold payloads whose length is near 2^32, the      *)
(* width of the length prefix.                                             *)
(*                                                                         *)
(* A length or offset of a byte vector (usize) is a pair <<hi, lo>> of     *)
(* 16-bit limbs standing for hi * 65536 + lo, with 0 <= lo < 65536, since  *)
(* TLC's integers stop short of 2^32.  The pair is canonical too.  Shard   *)
(* counts stay plain integers.  A 64-bit usize never overflows on the      *)
(* lengths used here, so the arithmetic is left unbounded.                 *)
(***************************************************************************)
EXTENDS Integers, Sequences, FiniteSets, TLC

VARIABLES codec, op, arg, result, work, sent, tamper

vars == <<codec, op, arg, result, work, sent, tamper>>

-----------------------------------------------------------------------------
(* Program constants *)

ShardMin == 1
ShardMax == 256
FieldOrder == 256

-----------------------------------------------------------------------------
(* Bounds of the model *)

MaxShardArg == 258
MaxData == 3
MaxParity == 2
MaxLen == 2
MaxBufLen == 8

-----------------------------------------------------------------------------
(* usize arithmetic on lengths and offsets *)

\* the length k, for an integer 0 <= k < 2^31
U(k) == <<k \div 65536, k % 65536>>

Norm(hi, lo) == <<hi + (lo \div 65536), lo % 65536>>

Add(a, b) == Norm(a[1] + b[1], a[2] + b[2])

\* a - b, for a >= b
Sub(a, b) ==
    IF a[2] >= b[2] THEN <<a[1] - b[1], a[2] - b[2]>>
    ELSE <<a[1] - b[1] - 1, a[2] + 65536 - b[2]>>

Lt(a, b) == a[1] < b[1] \/ (a[1] = b[1] /\ a[2] < b[2])
Le(a, b) == ~Lt(b, a)

Min(a, b) == IF Lt(a, b) THEN a ELSE b

\* a * k, a / k and a % k for a shard count k
Mul(a, k) == Norm(a[1] * k, a[2] * k)
Div(a, k) == <<a[1] \div k, ((a[1] % k) * 65536 + a[2]) \div k>>
Mod(a, k) == ((a[1] % k) * 65536 + a[2]) % k

DataSizeMin == U(1)
\* 1 << 32
DataSizeMax == <<65536, 0>>
PrefixLen == U(4)

-----------------------------------------------------------------------------
(* Byte vectors *)

\* vec![b; n]
Rep(b, n) == IF n = U(0) THEN <<>> ELSE << <<b, n>> >>

\* concatenation (extend_from_slice, flatten), keeping the form canonical
Cat(s, t) ==
    IF s = <<>> THEN t
    ELSE IF t = <<>> THEN s
    ELSE IF s[Len(s)][1] = t[1][1]
         THEN SubSeq(s, 1, Len(s) - 1)
              \o << <<t[1][1], Add(s[Len(s)][2], t[1][2])>> >>
              \o Tail(t)
         ELSE s \o t

RECURSIVE ByteLen(_)
\* slice.len(): the sum of the runs' lengths, halving the vector
ByteLen(s) ==
    IF Len(s) = 0 THEN U(0)
    ELSE IF Len(s) = 1 THEN s[1][2]
    ELSE Add(ByteLen(SubSeq(s, 1, Len(s) \div 2)),
             ByteLen(SubSeq(s, Len(s) \div 2 + 1, Len(s))))

\* the number of bytes in the first i runs of s
RunsLen(s, i) == ByteLen(SubSeq(s, 1, i))

\* the first n bytes of s (all of s when it is shorter)
Take(s, n) ==
    IF Le(ByteLen(s), n) THEN s
    ELSE IF n = U(0) THEN <<>>
    ELSE LET k == CHOOSE i \in 1..Len(s) :
                      Lt(RunsLen(s, i - 1), n) /\ Le(n, RunsLen(s, i))
         IN  SubSeq(s, 1, k - 1) \o << <<s[k][1], Sub(n, RunsLen(s, k - 1))>> >>

\* s without its first n bytes (empty when it is shorter)
Drop(s, n) ==
    IF Le(ByteLen(s), n) THEN <<>>
    ELSE LET k == CHOOSE i \in 1..Len(s) :
                      Le(RunsLen(s, i - 1), n) /\ Lt(n, RunsLen(s, i))
         IN  << <<s[k][1], Sub(RunsLen(s, k), n)>> >> \o SubSeq(s, k + 1, Len(s))

\* s[a..b], for a <= b <= s.len()
Slice(s, a, b) == Take(Drop(s, a), Sub(b, a))

\* s[i], for i < s.len()
At(s, i) == Drop(s, i)[1][1]

\* s with s[i] = v, for i < s.len()
SetByte(s, i, v) == Cat(Cat(Take(s, i), Rep(v, U(1))), Drop(s, Add(i, U(1))))

RECURSIVE FromSeq(_)
\* the byte vector holding the bytes of the explicit sequence q
FromSeq(q) ==
    IF Len(q) = 0 THEN <<>>
    ELSE IF Len(q) = 1 THEN Rep(q[1], U(1))
    ELSE Cat(FromSeq(SubSeq(q, 1, Len(q) \div 2)),
             FromSeq(SubSeq(q, Len(q) \div 2 + 1, Len(q))))

RECURSIVE Flatten(_)
\* shards.into_iter().flatten().collect()
Flatten(shards) ==
    IF Len(shards) = 0 THEN <<>>
    ELSE IF Len(shards) = 1 THEN shards[1]
    ELSE Cat(Flatten(SubSeq(shards, 1, Len(shards) \div 2)),
             Flatten(SubSeq(shards, Len(shards) \div 2 + 1, Len(shards))))

\* .collect(): the elements f[1], f[2], ... as a vector
Collect(f) == SubSeq(f, 1, Len(f))

\* all explicit byte sequences over the bytes bs, of length lo..hi
SeqsOver(bs, lo, hi) == UNION {[1..n -> bs] : n \in lo..hi}

-----------------------------------------------------------------------------
(* Results *)

Ok(v) == [kind |-> "Ok", val |-> v]
Err(e, m) == [kind |-> "Err", err |-> e, msg |-> m]
Panic == [kind |-> "Panic"]

-----------------------------------------------------------------------------
(* EncoderConfig *)

\* (SHARD_LIMITS.min..=SHARD_LIMITS.max).contains(&count)
is_valid_shard_count(count) == ShardMin <= count /\ count <= ShardMax

\* EncoderConfig::new without its check of the total
EncoderConfig_new_no_total(data_shards, parity_shards) ==
    IF ~is_valid_shard_count(data_shards)
    THEN Err("InvalidShardCount", "Data shards must be between min and max")
    ELSE IF ~is_valid_shard_count(parity_shards)
    THEN Err("InvalidShardCount", "Parity shards must be between min and max")
    ELSE Ok([data_shards |-> data_shards,
             parity_shards |-> parity_shards,
             total_shards |-> data_shards + parity_shards])

\* EncoderConfig::new
EncoderConfig_new(data_shards, parity_shards) ==
    IF ~is_valid_shard_count(data_shards)
    THEN Err("InvalidShardCount", "Data shards must be between min and max")
    ELSE IF ~is_valid_shard_count(parity_shards)
    THEN Err("InvalidShardCount", "Parity shards must be between min and max")
    ELSE LET total_shards == data_shards + parity_shards
         IN  IF total_shards > ShardMax
             THEN Err("InvalidShardCount", "Total shards exceeds maximum allowed")
             ELSE Ok([data_shards |-> data_shards,
                      parity_shards |-> parity_shards,
                      total_shards |-> total_shards])

-----------------------------------------------------------------------------
(* The erasure-coding primitive, reed_solomon_erasure::galois_8::ReedSolomon.
   Its source is outside the repository.  Modelled here: the argument checks
   of its constructor and of encode, and encode as a deterministic function
   that leaves the data shards as they are and fills every parity shard with
   bytes computed from the data shards.  The computation is a stand-in for
   the library's GF(2^8) matrix product: parity shard j holds the bytes of
   data shard ((j - 1) mod data_shards) + 1, each with j added mod 256. *)

\* ReedSolomon::new(data_shards, parity_shards)
ReedSolomon_new(data_shards, parity_shards) ==
    IF data_shards = 0 THEN Err("TooFewDataShards", "")
    ELSE IF parity_shards = 0 THEN Err("TooFewParityShards", "")
    ELSE IF data_shards + parity_shards > FieldOrder THEN Err("TooManyShards", "")
    ELSE Ok([data_shard_count |-> data_shards,
             parity_shard_count |-> parity_shards,
             total_shard_count |-> data_shards + parity_shards])

\* parity shard j of the equal-length, non-empty data shards ds
ParityShard(j, ds) ==
    LET src == ds[((j - 1) % Len(ds)) + 1]
    IN  Collect([i \in 1..Len(src) |-> <<(src[i][1] + j) % 256, src[i][2]>>])

\* ReedSolomon::encode(&mut shards)
ReedSolomon_encode(rs, shards) ==
    IF Len(shards) < rs.total_shard_count THEN Err("TooFewShards", "")
    ELSE IF Len(shards) > rs.total_shard_count THEN Err("TooManyShards", "")
    ELSE IF ByteLen(shards[1]) = U(0) THEN Err("EmptyShard", "")
    ELSE IF \E i \in 1..Len(shards) : ByteLen(shards[i]) # ByteLen(shards[1])
    THEN Err("IncorrectShardSize", "")
    ELSE LET ds == SubSeq(shards, 1, rs.data_shard_count)
         IN  Ok(Collect([i \in 1..Len(shards) |->
                    IF i <= rs.data_shard_count THEN shards[i]
                    ELSE ParityShard(i - rs.data_shard_count, ds)]))

-----------------------------------------------------------------------------
(* ReedSolomonCodec::new *)

ReedSolomonCodec_new(data_shards, parity_shards) ==
    LET config == EncoderConfig_new(data_shards, parity_shards)
    IN  IF config.kind # "Ok" THEN config
        ELSE LET rs == ReedSolomon_new(config.val.data_shards,
                                       config.val.parity_shards)
             IN  IF rs.kind # "Ok" THEN Err("CodecError", rs.err)
                 ELSE Ok([codec |-> rs.val, config |-> config.val])

-----------------------------------------------------------------------------
(* DataProcessor: the encode side *)

\* validate_data_size with an exclusive upper limit
validate_data_size_exclusive(data) ==
    IF ~(Le(DataSizeMin, ByteLen(data)) /\ Lt(ByteLen(data), DataSizeMax))
    THEN Err("InvalidDataSize", "Data size must be between min and max")
    ELSE Ok(<<>>)

\* (DATA_SIZE_LIMITS.min..=DATA_SIZE_LIMITS.max).contains(&data.len())
validate_data_size(data) ==
    IF ~(Le(DataSizeMin, ByteLen(data)) /\ Le(ByteLen(data), DataSizeMax))
    THEN Err("InvalidDataSize", "Data size must be between min and max")
    ELSE Ok(<<>>)

\* data.len() as u32: the low 32 bits
AsU32(n) == <<n[1] % 65536, n[2]>>

\* BigEndian::write_u32(&mut size_prefix, v)
write_u32(v) ==
    FromSeq(<<v[1] \div 256, v[1] % 256, v[2] \div 256, v[2] % 256>>)

\* BigEndian::read_u32(&buf[..4]), for buf.len() >= 4
read_u32(buf) ==
    <<At(buf, U(0)) * 256 + At(buf, U(1)), At(buf, U(2)) * 256 + At(buf, U(3))>>

prepare_data(data) ==
    LET valid == validate_data_size(data)
    IN  IF valid.kind # "Ok" THEN valid
        ELSE Ok(Cat(write_u32(AsU32(ByteLen(data))), data))

\* the shard size rounded down
shard_size_floor(len, data_shards) == Div(len, data_shards)

\* (data.len() + data_shards - 1) / data_shards
shard_size_of(len, data_shards) ==
    Div(Sub(Add(len, U(data_shards)), U(1)), data_shards)

split_into_shards(data, data_shards, total_shards) ==
    IF data_shards = 0 THEN Panic
    ELSE LET shard_size == shard_size_of(ByteLen(data), data_shards)
             len == ByteLen(data)
             \* chunk i of data.chunks(shard_size) exists
             has_chunk(i) == Lt(Mul(shard_size, i - 1), len)
         IN  IF shard_size = U(0) THEN Panic
             ELSE IF \E i \in 1..data_shards : has_chunk(i) /\ i > total_shards
             THEN Panic
             ELSE Ok(Collect([i \in 1..total_shards |->
                    IF i <= data_shards /\ has_chunk(i)
                    THEN LET chunk == Slice(data, Mul(shard_size, i - 1),
                                            Min(Mul(shard_size, i), len))
                         IN  Cat(chunk, Rep(0, Sub(shard_size, ByteLen(chunk))))
                    ELSE Rep(0, shard_size)]))

NotRun == [kind |-> "NotRun"]

\* ReedSolomonCodec::encode, with the values of its locals: encoded_data
\* (framed), shards after the primitive filled the parity (shards), and
\* what it returns (out)
encode_steps(self, data) ==
    LET encoded_data == prepare_data(data)
    IN  IF encoded_data.kind # "Ok"
        THEN [framed |-> encoded_data, shards |-> NotRun, out |-> encoded_data]
        ELSE LET shards == split_into_shards(encoded_data.val,
                                             self.config.data_shards,
                                             self.config.total_shards)
             IN  IF shards.kind # "Ok"
                 THEN [framed |-> encoded_data, shards |-> shards, out |-> shards]
                 ELSE LET filled == ReedSolomon_encode(self.codec, shards.val)
                      IN  [framed |-> encoded_data,
                           shards |-> filled,
                           out |-> IF filled.kind # "Ok"
                                   THEN Err("EncodingError", filled.err)
                                   ELSE Ok(Flatten(filled.val))]

\* ReedSolomonCodec::encode
encode(self, data) == encode_steps(self, data).out

-----------------------------------------------------------------------------
(* DataProcessor: the decode side *)

\* validate_and_split_shares without its check of divisibility
validate_and_split_shares_no_divisibility(data, total_shards) ==
    IF ByteLen(data) = U(0) THEN Err("InvalidDataSize", "Empty data")
    ELSE IF total_shards = 0 THEN Panic
    ELSE LET share_size == Div(ByteLen(data), total_shards)
         IN  Ok(Collect([i \in 1..total_shards |->
                    Slice(data, Mul(share_size, i - 1), Mul(share_size, i))]))

validate_and_split_shares(data, total_shards) ==
    IF ByteLen(data) = U(0) THEN Err("InvalidDataSize", "Empty data")
    ELSE IF total_shards = 0 THEN Panic
    ELSE IF Mod(ByteLen(data), total_shards) # 0
    THEN Err("InvalidDataSize", "Data length not divisible by total shards")
    ELSE LET share_size == Div(ByteLen(data), total_shards)
         IN  IF Lt(ByteLen(data), Mul(share_size, total_shards)) THEN Panic
             ELSE Ok(Collect([i \in 1..total_shards |->
                        Slice(data, Mul(share_size, i - 1), Mul(share_size, i))]))

\* extract_original_data returning everything after the prefix
extract_original_data_unbounded(decoded) ==
    IF Lt(ByteLen(decoded), PrefixLen)
    THEN Err("DecodingError", "Data too short")
    ELSE LET original_size == read_u32(decoded)
         IN  IF Lt(Sub(ByteLen(decoded), PrefixLen), original_size)
             THEN Err("DecodingError", "Invalid size prefix")
             ELSE Ok(Drop(decoded, PrefixLen))

extract_original_data(decoded) ==
    IF Lt(ByteLen(decoded), PrefixLen)
    THEN Err("DecodingError", "Data too short")
    ELSE LET original_size == read_u32(decoded)
         IN  IF Lt(Sub(ByteLen(decoded), PrefixLen), original_size)
             THEN Err("DecodingError", "Invalid size prefix")
             ELSE Ok(Slice(decoded, PrefixLen, Add(PrefixLen, original_size)))

\* ReedSolomonCodec::decode
decode(self, data) ==
    LET shares == validate_and_split_shares(data, self.config.total_shards)
    IN  IF shares.kind # "Ok" THEN shares
        ELSE IF Len(shares.val) = 0 THEN Panic
        ELSE LET shard_size == ByteLen(shares.val[1])
                 data_shards == self.config.data_shards
                 taken == IF data_shards < Len(shares.val)
                          THEN data_shards ELSE Len(shares.val)
             IN  IF shard_size = U(0) THEN Panic
                 ELSE IF \E i \in 1..taken :
                            ByteLen(shares.val[i]) # shard_size
                 THEN Panic
                 ELSE extract_original_data(
                        Flatten(Collect([i \in 1..data_shards |->
                                   IF i <= taken THEN shares.val[i]
                                   ELSE Rep(0, shard_size)])))

-----------------------------------------------------------------------------
(* Inputs *)

PayloadBytes == {0, 1}
TamperBytes == {0, 1}

\* b"Hello, World!"
HelloWorld == FromSeq(<<72, 101, 108, 108, 111, 44, 32, 87, 111, 114, 108, 100, 33>>)

\* payloads whose length is next to DATA_SIZE_LIMITS.max
LargePayloads ==
    {Rep(1, n) : n \in {Sub(DataSizeMax, U(1)), DataSizeMax, Add(DataSizeMax, U(1))}}

Payloads ==
    {FromSeq(q) : q \in SeqsOver(PayloadBytes, 0, MaxLen)}
        \cup {HelloWorld} \cup LargePayloads

\* buffers handed to decode that no encode produced: every buffer of up to
\* PrefixLen bytes, and the longer ones whose size prefix starts 0, 0, 0
Buffers ==
    {FromSeq(q) : q \in {r \in SeqsOver(PayloadBytes, 0, MaxBufLen) :
                            Len(r) > 4 => r[1] = 0 /\ r[2] = 0 /\ r[3] = 0}}

ShardArgs == 0..MaxShardArg

\* the codecs in use: a grid of small shard counts and the Codec(10, 4) of main
CodecArgs == ((1..MaxData) \X (1..MaxParity)) \cup {<<10, 4>>}

NoCodec == [codec |-> "none", config |-> "none"]
NoPayload == [has |-> FALSE]
NoTamper == [has |-> FALSE]
NoWork == [framed |-> NotRun, shards |-> NotRun]

\* the offsets of the encoded bytes w at which a byte is overwritten in
\* transit: the first and last byte of the size prefix, the first byte after
\* it, the last byte of the data shards, the first and last parity byte
TamperPositions(w, self) ==
    LET n == ByteLen(w)
        region == Mul(Div(n, self.config.total_shards), self.config.data_shards)
    IN  {i \in {U(0), U(3), U(4), Sub(region, U(1)), region, Sub(n, U(1))} :
            Lt(i, n)}

-----------------------------------------------------------------------------
(* The state machine.  codec is the ReedSolomonCodec in use; op, arg and
   result are the last call made, its argument and what it returned; work
   holds the locals of the last encode call.  sent and tamper record where a decoded buffer came from: the payload whose
   encoding it is (with the encoding as produced) and the byte overwritten
   in it, if any. *)

\* no codec constructed yet
InitNew ==
    /\ codec = NoCodec
    /\ op = "none"
    /\ arg = <<>>
    /\ result = Ok(<<>>)
    /\ work = NoWork
    /\ sent = NoPayload
    /\ tamper = NoTamper

\* ReedSolomonCodec::new(d, p)
New(d, p) ==
    /\ op = "none"
    /\ op' = "new"
    /\ arg' = [data_shards |-> d, parity_shards |-> p]
    /\ result' = ReedSolomonCodec_new(d, p)
    /\ codec' = IF result'.kind = "Ok" THEN result'.val ELSE NoCodec
    /\ UNCHANGED <<work, sent, tamper>>

NextNew == op = "none" /\ \E d \in ShardArgs, p \in ShardArgs : New(d, p)

SpecNew == InitNew /\ [][NextNew]_vars

\* a codec constructed with valid shard counts
Init ==
    /\ \E a \in CodecArgs :
          /\ ReedSolomonCodec_new(a[1], a[2]).kind = "Ok"
          /\ codec = ReedSolomonCodec_new(a[1], a[2]).val
          /\ arg = [data_shards |-> a[1], parity_shards |-> a[2]]
    /\ op = "new"
    /\ result = Ok(codec)
    /\ work = NoWork
    /\ sent = NoPayload
    /\ tamper = NoTamper

\* codec.encode(p) that leaves the codec set up for the shard size it used
Encode_reconfigures(p) ==
    /\ op' = "encode"
    /\ arg' = p
    /\ \E steps \in {encode_steps(codec, p)} :
          /\ result' = steps.out
          /\ work' = [framed |-> steps.framed, shards |-> steps.shards]
    /\ sent' = NoPayload
    /\ tamper' = NoTamper
    /\ codec' = IF result'.kind = "Ok"
                THEN [codec EXCEPT !.config.parity_shards = 1,
                                   !.config.total_shards = codec.config.data_shards + 1]
                ELSE codec

\* codec.encode(p)
Encode(p) ==
    /\ op' = "encode"
    /\ arg' = p
    /\ \E steps \in {encode_steps(codec, p)} :
          /\ result' = steps.out
          /\ work' = [framed |-> steps.framed, shards |-> steps.shards]
    /\ sent' = NoPayload
    /\ tamper' = NoTamper
    /\ UNCHANGED codec

\* codec.decode(b) on the bytes the preceding encode returned
DecodeEncoded ==
    /\ op = "encode"
    /\ result.kind = "Ok"
    /\ op' = "decode"
    /\ arg' = result.val
    /\ result' = decode(codec, arg')
    /\ work' = NoWork
    /\ sent' = [has |-> TRUE, payload |-> arg, wire |-> result.val]
    /\ tamper' = NoTamper
    /\ UNCHANGED codec

\* whether the last call left encoded bytes in transit, as encode made them
InTransit ==
    \/ op = "encode" /\ result.kind = "Ok"
    \/ op = "decode" /\ sent.has /\ ~tamper.has

\* the encoded bytes in transit, as encode produced them, and their payload
Wire == IF op = "encode" THEN result.val ELSE sent.wire
WirePayload == IF op = "encode" THEN arg ELSE sent.payload

\* the offsets at which the bytes in transit can be overwritten
TamperSet == IF InTransit THEN TamperPositions(Wire, codec) ELSE {}

\* codec.decode(b) on encoded bytes of which the one at pos was overwritten by val
DecodeTampered(pos, val) ==
    /\ InTransit
    /\ val # At(Wire, pos)
    /\ op' = "decode"
    /\ arg' = SetByte(Wire, pos, val)
    /\ result' = decode(codec, arg')
    /\ work' = NoWork
    /\ sent' = [has |-> TRUE, payload |-> WirePayload, wire |-> Wire]
    /\ tamper' = [has |-> TRUE, pos |-> pos, val |-> val]
    /\ UNCHANGED codec

\* codec.decode(b) on any buffer
DecodeBuffer(b) ==
    /\ op' = "decode"
    /\ arg' = b
    /\ result' = decode(codec, b)
    /\ work' = NoWork
    /\ sent' = NoPayload
    /\ tamper' = NoTamper
    /\ UNCHANGED codec

Next ==
    \/ \E p \in Payloads : Encode(p)
    \/ DecodeEncoded
    \/ \E pos \in TamperSet, val \in TamperBytes : DecodeTampered(pos, val)
    \/ \E b \in Buffers : DecodeBuffer(b)

Spec == Init /\ [][Next]_vars

-----------------------------------------------------------------------------
(* Properties *)

D == codec.config.data_shards
T == codec.config.total_shards

TwoPow32 == <<65536, 0>>

EncodeOk == op = "encode" /\ result.kind = "Ok"

\* a decode call on the bytes an encode call returned, unaltered
DecodedEncoded == op = "decode" /\ sent.has /\ ~tamper.has

IsErr(r, e) == r.kind = "Err" /\ r.err = e

\* the same payload or the same error kind
SameOutcome(r1, r2) ==
    /\ r1.kind = r2.kind
    /\ r1.kind = "Ok" => r1.val = r2.val
    /\ r1.kind = "Err" => r1.err = r2.err

\* the number of bytes the first data_shards shares of the buffer b hold
DataRegion(b) == Mul(Div(ByteLen(b), T), D)

\* C1: round trip.  Every payload of 1..2^32 bytes is encoded successfully,
\* and decoding the encoded bytes gives the payload back, byte for byte.
C1_RoundTrip ==
    /\ (op = "encode" /\ Le(U(1), ByteLen(arg)) /\ Le(ByteLen(arg), TwoPow32))
          => result.kind = "Ok"
    /\ DecodedEncoded => result = Ok(sent.payload)

\* C2: the framed buffer of an accepted payload is 4 bytes longer than the
\* payload, holds the payload from offset 4 on, and its first 4 bytes read
\* big-endian give the payload's length, which is below 2^32.
C2_FramedBuffer ==
    (op = "encode" /\ work.framed.kind = "Ok") =>
        /\ ByteLen(work.framed.val) = Add(U(4), ByteLen(arg))
        /\ Drop(work.framed.val, U(4)) = arg
        /\ read_u32(work.framed.val) = ByteLen(arg)
        /\ Lt(ByteLen(arg), TwoPow32)

\* C3: the output of a successful encode is total_shards shards of one
\* size S >= 1, where S is the least size with S * data_shards >= len + 4;
\* Codec(10, 4) on 13 bytes gives S = 2 and 28 bytes.
C3_ShardSize ==
    EncodeOk =>
        LET F == Add(ByteLen(arg), U(4))
            S == Div(ByteLen(result.val), T)
        IN  /\ ByteLen(result.val) = Mul(S, T)
            /\ Le(U(1), S)
            /\ Le(F, Mul(S, D))
            /\ Lt(Mul(Sub(S, U(1)), D), F)
            /\ work.shards.kind = "Ok"
            /\ Len(work.shards.val) = T
            /\ \A i \in 1..T : ByteLen(work.shards.val[i]) = S
            /\ (D = 10 /\ T = 14 /\ ByteLen(arg) = U(13))
                  => S = U(2) /\ ByteLen(result.val) = U(28)

C3_Witness ==
    /\ EncodeOk
    /\ D = 10
    /\ arg = HelloWorld
    /\ ByteLen(result.val) = U(28)

\* C4: construction fails with InvalidShardCount when a shard count is
\* outside 1..256 or the two add up to more than 256, and otherwise
\* succeeds with the configuration (d, p, d + p).
C4_ConfigBounds ==
    op = "new" =>
        LET d == arg.data_shards
            p == arg.parity_shards
        IN  IF d < 1 \/ d > 256 \/ p < 1 \/ p > 256 \/ d + p > 256
            THEN IsErr(result, "InvalidShardCount") /\ codec = NoCodec
            ELSE /\ result.kind = "Ok"
                 /\ codec.config = [data_shards |-> d, parity_shards |-> p,
                                    total_shards |-> d + p]
                 /\ codec.config.total_shards <= 256

C4_Witness ==
    /\ op = "new"
    /\ arg = [data_shards |-> 128, parity_shards |-> 129]
    /\ IsErr(result, "InvalidShardCount")

\* C5: decode rejects an empty buffer and a buffer whose length is no
\* multiple of total_shards with InvalidDataSize, whatever the buffer holds;
\* a buffer of a multiple of total_shards bytes is rejected with
\* DecodingError when its data shares hold fewer than 4 bytes or their size
\* prefix exceeds the bytes that follow it.
C5_MalformedDecode ==
    op = "decode" =>
        /\ ByteLen(arg) = U(0) => IsErr(result, "InvalidDataSize")
        /\ (ByteLen(arg) # U(0) /\ Mod(ByteLen(arg), T) # 0)
              => IsErr(result, "InvalidDataSize")
        /\ (ByteLen(arg) # U(0) /\ Mod(ByteLen(arg), T) = 0) =>
              /\ Lt(DataRegion(arg), U(4))
                    => IsErr(result, "DecodingError")
                       /\ result.msg = "Data too short"
              /\ (Le(U(4), DataRegion(arg))
                    /\ Lt(Sub(DataRegion(arg), U(4)), read_u32(arg)))
                    => IsErr(result, "DecodingError")
                       /\ result.msg = "Invalid size prefix"

C5_Witness ==
    /\ op = "decode"
    /\ ~sent.has
    /\ Mod(ByteLen(arg), T) = 0
    /\ IsErr(result, "DecodingError")
    /\ result.msg = "Invalid size prefix"

\* C6: encode fails with InvalidDataSize, and produces nothing, exactly for
\* the payloads whose length is outside 1..2^32.
C6_PayloadSize ==
    op = "encode" =>
        /\ (Lt(ByteLen(arg), U(1)) \/ Lt(TwoPow32, ByteLen(arg)))
              => IsErr(result, "InvalidDataSize") /\ work.shards = NotRun
        /\ (Le(U(1), ByteLen(arg)) /\ Le(ByteLen(arg), TwoPow32))
              => ~IsErr(result, "InvalidDataSize")

C6_Witness ==
    /\ op = "encode"
    /\ ByteLen(arg) = Add(TwoPow32, U(1))
    /\ IsErr(result, "InvalidDataSize")

\* C7: the data shards of encode(p) are the framed buffer followed by zero
\* bytes, none when the framed length is a multiple of data_shards, and
\* decode(encode(p)) has exactly len(p) bytes, those of p.
C7_PaddingTransparency ==
    /\ EncodeOk =>
          LET F == ByteLen(work.framed.val)
              region == DataRegion(result.val)
          IN  /\ Drop(work.framed.val, U(4)) = arg
              /\ Le(F, region)
              /\ Take(result.val, region)
                    = Cat(work.framed.val, Rep(0, Sub(region, F)))
              /\ Mod(F, D) = 0 => region = F
    /\ DecodedEncoded =>
          /\ result.kind = "Ok"
          /\ ByteLen(result.val) = ByteLen(sent.payload)
          /\ result.val = sent.payload

C9_DecodeWellFormed ==
    op = "decode" =>
        /\ result.kind # "Panic"
        /\ (/\ ByteLen(arg) # U(0)
            /\ Mod(ByteLen(arg), T) = 0
            /\ Le(U(4), DataRegion(arg))
            /\ Le(read_u32(arg), Sub(DataRegion(arg), U(4))))
           => /\ result = Ok(Slice(arg, U(4), Add(U(4), read_u32(arg))))
              /\ ByteLen(result.val) = read_u32(arg)

\* a buffer no encode produced, decoded to 1 byte with a byte left over
C9_Witness ==
    /\ op = "decode"
    /\ ~sent.has
    /\ result.kind = "Ok"
    /\ ByteLen(result.val) = U(1)
    /\ Lt(U(5), DataRegion(arg))

\* C10: two buffers of one length, a multiple of total_shards, that agree
\* on their data shares decode to the same outcome; encoded bytes with a
\* parity byte overwritten decode to the payload, and with a payload byte
\* overwritten they decode, undetected, to another payload.
C10_ParityIgnored ==
    [][/\ (/\ op = "decode" /\ op' = "decode"
           /\ ByteLen(arg) # U(0)
           /\ ByteLen(arg') = ByteLen(arg)
           /\ Mod(ByteLen(arg), T) = 0
           /\ Take(arg', DataRegion(arg)) = Take(arg, DataRegion(arg)))
          => SameOutcome(result, result')
       /\ (op' = "decode" /\ tamper'.has /\ Le(DataRegion(arg'), tamper'.pos))
          => result' = Ok(sent'.payload)
       /\ (/\ op' = "decode" /\ tamper'.has
           /\ Le(U(4), tamper'.pos)
           /\ Lt(tamper'.pos, Add(U(4), ByteLen(sent'.payload))))
          => result'.kind = "Ok" /\ result'.val # sent'.payload
      ]_vars

====
